---- MODULE Spec2Model ----
(***************************************************************************)
(* Generation queue and job lifecycle of the image studio (App.tsx,         *)
(* services/geminiService.ts, components/ReferenceImagePanel.tsx,           *)
(* components/GenerationPanel.tsx, components/ImageDetailModal.tsx).        *)
(*                                                                         *)
(* React state is modelled by two layers.  The variables queue, gallery,    *)
(* referenceImages and selectedImage hold the state with every update that  *)
(* has been handed to a setter applied (the value an updater function       *)
(* receives as prev).  The variable rendered holds the values of the last   *)
(* committed render: these are the values the closures of that render       *)
(* (processQueue in the installed interval, handleAddToQueue, the props of  *)
(* ReferenceImagePanel and ImageDetailModal) read.                          *)
(***************************************************************************)
EXTENDS Integers, Sequences, FiniteSets, TLC

VARIABLES
    mounted,          \* the effects of the first render have run
    referenceImages,  \* App state: staged reference images
    queue,            \* App state: the jobs
    gallery,          \* App state: the gallery items
    selectedImage,    \* App state: item shown in the modal, or NoItem
    isProcessingRef,  \* App ref: the busy flag
    rendered,         \* values of the last committed render
    storage,          \* localStorage slot 'gemini-studio-gallery'
    inflight,         \* processQueue invocations suspended in generateImage
    uploads,          \* handleImageUpload invocations suspended in Promise.all
    upscales,         \* handleUpscaleClick invocations suspended in upscaleImage
    uuid,             \* number of crypto.randomUUID() results handed out
    nfiles,           \* number of files the user has picked so far
    nupscales,        \* number of upscale requests made so far
    calls,            \* log: job ids passed to generateImage, in call order
    captured,         \* log: the jobs as they were created, in creation order
    updates,          \* names of the state hooks with updates not yet rendered
    quota,            \* environment: number of gallery items the slot has room for
    rejected          \* log: a submit event has been ignored by handleSubmit

vars == <<mounted, referenceImages, queue, gallery, selectedImage,
          isProcessingRef, rendered, storage, inflight, uploads, upscales,
          uuid, nfiles, nupscales, calls, captured, updates, quota, rejected>>

----------------------------------------------------------------------------
(* Bounds of the model *)

MaxJobs == 2
MaxCalls == 3
MaxFiles == 5
MaxUpscales == 1

(* Program constants *)

MAX_IMAGES == 4

----------------------------------------------------------------------------
(* Values *)

NoItem == [id |-> "", src |-> [mime |-> "", data |-> ""], prompt |-> <<>>]
NoError == ""
NoStorage == <<>>

AspectRatios == {"1:1", "16:9", "9:16", "4:3", "3:4"}

\* What the user can submit: the text of the prompt box, as a sequence of
\* characters, and the selected aspect ratio.
Submissions == {<<<<>>, "1:1">>, <<<<" ">>, "16:9">>, <<<<"a">>, "1:1">>, <<<<" ", "b">>, "16:9">>}

\* Numbers of gallery items the slot can have room for.
Quotas == {1, 8}

\* Numbers of files the user can pick in one file dialog.
PickSizes == {2, 5}

(* An image payload "data:<mime>;base64,<data>" is the record of its parts. *)
DataUrl(mime, data) == [mime |-> mime, data |-> data]

ValidDataUrl(u) == u.mime # "" /\ u.data # ""

\* What the remote API does with one request.
ApiImage == [kind |-> "image", mime |-> "image/jpeg", data |-> "AAA",
             isError |-> FALSE, message |-> "", blockReason |-> ""]
ApiEmpty == [kind |-> "empty", mime |-> "", data |-> "",
             isError |-> FALSE, message |-> "", blockReason |-> ""]
ApiBlocked == [kind |-> "throw", mime |-> "", data |-> "",
               isError |-> TRUE, message |-> "prompt was blocked", blockReason |-> "SAFETY"]
ApiNonError == [kind |-> "throw", mime |-> "", data |-> "",
                isError |-> FALSE, message |-> "", blockReason |-> ""]
ApiOutcomes == {ApiImage, ApiEmpty, ApiBlocked, ApiNonError}

Returned(url) == [ok |-> TRUE, url |-> url, isError |-> FALSE, message |-> "", blockReason |-> ""]
Thrown(isError, message, blockReason) ==
    [ok |-> FALSE, url |-> DataUrl("", ""), isError |-> isError, message |-> message,
     blockReason |-> blockReason]

----------------------------------------------------------------------------
(* services/geminiService.ts *)

\* The try block of generateImage: the value it returns or the error it throws.
generateImageTry(job, api) ==
    IF Len(job.referenceImages) > 0
    THEN IF ~ValidDataUrl(job.referenceImages[1])
         THEN Thrown(TRUE, "Invalid base64 string format", "")
         ELSE CASE api.kind = "image" -> Returned(DataUrl(api.mime, api.data))
                [] api.kind = "empty" ->
                     Thrown(TRUE, "Image generation failed: No image data received from multimodal API.", "")
                [] OTHER -> Thrown(api.isError, api.message, api.blockReason)
    ELSE CASE api.kind = "image" -> Returned(DataUrl("image/png", api.data))
           [] api.kind = "empty" ->
                Thrown(TRUE, "Image generation failed: No image data received from API.", "")
           [] OTHER -> Thrown(api.isError, api.message, api.blockReason)

\* The catch block of generateImage: the message of the Error it rethrows.
generateImageMessage(e) ==
    IF e.isError
    THEN IF e.blockReason # ""
         THEN "Request blocked: " \o e.blockReason \o "."
         ELSE e.message
    ELSE "An unknown error occurred during image generation."

generateImage(job, api) ==
    LET r == generateImageTry(job, api)
    IN  IF r.ok THEN r ELSE Thrown(TRUE, generateImageMessage(r), "")

----------------------------------------------------------------------------
(* App.tsx: the queue *)

RECURSIVE Trim(_)
\* String.prototype.trim on a sequence of characters.
Trim(s) ==
    IF s = <<>> THEN s
    ELSE IF Head(s) = " " THEN Trim(Tail(s))
    ELSE IF s[Len(s)] = " " THEN Trim(SubSeq(s, 1, Len(s) - 1))
    ELSE s

\* Mutant: every call returns the same identifier.
constantUUID(n) == "u1"

randomUUID(n) == "u" \o ToString(n)

\* Mutant: the job is built without the staged images.
newJobNoImages(id, prompt, aspectRatio, images) ==
    [id |-> id, prompt |-> prompt, referenceImages |-> <<>>, aspectRatio |-> aspectRatio,
     status |-> "pending", error |-> NoError]

newJob(id, prompt, aspectRatio, images) ==
    [id |-> id, prompt |-> prompt, referenceImages |-> images,
     aspectRatio |-> aspectRatio, status |-> "pending", error |-> NoError]

\* Mutant: find takes the pending job submitted last.
findPendingLast(q) ==
    IF \E i \in DOMAIN q : q[i].status = "pending"
    THEN CHOOSE i \in DOMAIN q :
            /\ q[i].status = "pending"
            /\ \A k \in (i + 1)..Len(q) : q[k].status # "pending"
    ELSE 0

\* Mutant: only the head of the queue is looked at.
findPendingHead(q) == IF Len(q) > 0 /\ q[1].status = "pending" THEN 1 ELSE 0

\* queue.find(j => j.status === 'pending'): the index, or 0 when there is none.
findPending(q) ==
    IF \E i \in DOMAIN q : q[i].status = "pending"
    THEN CHOOSE i \in DOMAIN q :
            /\ q[i].status = "pending"
            /\ \A k \in 1..(i - 1) : q[k].status # "pending"
    ELSE 0

markProcessing(q, id) ==
    [i \in DOMAIN q |-> IF q[i].id = id THEN [q[i] EXCEPT !.status = "processing"] ELSE q[i]]

markCompleted(q, id) == SelectSeq(q, LAMBDA j : j.id # id)

\* Mutant: the updater does not compare ids.
markFailedAll(q, id, errorMessage) ==
    [i \in DOMAIN q |-> [q[i] EXCEPT !.status = "failed", !.error = errorMessage]]

markFailed(q, id, errorMessage) ==
    [i \in DOMAIN q |->
        IF q[i].id = id
        THEN [q[i] EXCEPT !.status = "failed", !.error = errorMessage]
        ELSE q[i]]

newGalleryItem(id, imageUrl, prompt) == [id |-> id, src |-> imageUrl, prompt |-> prompt]

\* Mutant: the new item is put at the end.
appendItem(g, item) == g \o <<item>>

\* Mutant: the new item is put behind the first one.
insertSecond(g, item) == IF g = <<>> THEN <<item>> ELSE <<g[1], item>> \o Tail(g)

prepend(g, item) == <<item>> \o g

\* error instanceof Error ? error.message : 'Unknown error'
errorMessageOf(e) == IF e.isError THEN e.message ELSE "Unknown error"

\* Mutant: no finally block.
keepBusy(flag) == flag

\* The finally block of processQueue.
releaseBusy(flag) == FALSE

----------------------------------------------------------------------------
(* The persisted slot: JSON text as a sequence of tokens *)

Tok(k) == [k |-> k, id |-> "", src |-> DataUrl("", ""), prompt |-> <<>>]

\* Mutant: the serialised item has lost its image.
ObjTokNoSrc(item) == [k |-> "obj", id |-> item.id, src |-> DataUrl("", ""), prompt |-> item.prompt]

ObjTok(item) == [k |-> "obj", id |-> item.id, src |-> item.src, prompt |-> item.prompt]

JSONstringify(g) ==
    <<Tok("[")>> \o [i \in 1..Len(g) |-> ObjTok(g[i])] \o <<Tok("]")>>

\* What JSON.parse returns for the text {}: a value that is no array.  It has
\* no length and no map, and it cannot be spread.
NotAnArray == <<Tok("{}")>>

IsArray(g) == g # NotAnArray

\* JSON.parse: ok is FALSE when it throws SyntaxError.
JSONparse(text) ==
    IF text = <<Tok("{}")>>
    THEN [ok |-> TRUE, value |-> NotAnArray]
    ELSE
    IF /\ Len(text) >= 2
       /\ text[1].k = "["
       /\ text[Len(text)].k = "]"
       /\ \A i \in 2..(Len(text) - 1) : text[i].k = "obj"
    THEN [ok |-> TRUE,
          value |-> [i \in 1..(Len(text) - 2) |->
                        newGalleryItem(text[i + 1].id, text[i + 1].src, text[i + 1].prompt)]]
    ELSE [ok |-> FALSE, value |-> <<>>]

OldItem == newGalleryItem("old1", DataUrl("image/png", "OLD"), <<"o">>)

\* What the slot can hold when the page is opened.
PreviousSessions == {NoStorage, JSONstringify(<<OldItem>>), <<Tok("[")>>, <<Tok("{}")>>}

----------------------------------------------------------------------------
(* Rendering *)

HookNames == {"queue", "gallery", "referenceImages", "selectedImage"}

\* localStorage.setItem inside try/catch: the text is stored, or setItem throws
\* QuotaExceededError and the slot keeps what it held.
setItem(slot, text, room) == IF Len(text) - 2 <= room THEN text ELSE slot

\* The save effect (deps [gallery]).
saveGallery(g, slot, room) == setItem(slot, JSONstringify(g), room)

\* Mutant: a gallery whose write fails is not rendered.
CommitRollback(upd) ==
    /\ rendered' = [queue |-> queue', referenceImages |-> referenceImages',
                    gallery |-> IF "gallery" \in upd /\ saveGallery(gallery', storage, quota) = storage
                                THEN rendered.gallery ELSE gallery',
                    selectedImage |-> selectedImage']
    /\ updates' = {}
    /\ storage' = IF "gallery" \in upd /\ IsArray(gallery')
                  THEN saveGallery(gallery', storage, quota)
                  ELSE storage

\* A commit of the state after this step: the closures of the new render see
\* it, and the effects whose dependencies changed run.
Commit(upd) ==
    /\ rendered' = [queue |-> queue', referenceImages |-> referenceImages',
                    gallery |-> gallery', selectedImage |-> selectedImage']
    /\ updates' = {}
    /\ storage' = IF "gallery" \in upd /\ IsArray(gallery')
                  THEN saveGallery(gallery', storage, quota)
                  ELSE storage

\* Gallery reads gallery.length and calls gallery.map while it renders: with
\* a gallery that is no array the render throws, React unmounts the tree,
\* the effects of that render do not run and no handler or timer is left.
Crashed == ~IsArray(rendered.gallery)

running == mounted /\ ~Crashed

Init ==
    /\ mounted = FALSE
    /\ referenceImages = <<>>
    /\ queue = <<>>
    /\ gallery = <<>>
    /\ selectedImage = NoItem
    /\ isProcessingRef = FALSE
    /\ rendered = [queue |-> <<>>, referenceImages |-> <<>>, gallery |-> <<>>,
                   selectedImage |-> NoItem]
    /\ storage \in PreviousSessions
    /\ inflight = <<>>
    /\ uploads = {}
    /\ upscales = {}
    /\ uuid = 0
    /\ nfiles = 0
    /\ nupscales = 0
    /\ calls = <<>>
    /\ captured = <<>>
    /\ updates = {}
    /\ quota \in Quotas
    /\ rejected = FALSE

\* The effects of the first render, in source order: load, save, interval.
MountEffects ==
    /\ ~mounted
    /\ mounted' = TRUE
    /\ LET parsed == JSONparse(storage)
       IN  IF storage # NoStorage /\ parsed.ok
           THEN gallery' = parsed.value /\ updates' = {"gallery"}
           ELSE UNCHANGED <<gallery, updates>>
    /\ storage' = saveGallery(rendered.gallery, storage, quota)
    /\ UNCHANGED <<quota, rejected, nupscales, referenceImages, queue, selectedImage,
                   isProcessingRef, rendered, inflight, uploads, upscales, uuid, nfiles, nupscales, calls, captured>>

\* A render scheduled by updates made outside a user event, with its effects.
Render ==
    /\ running
    /\ updates # {}
    /\ UNCHANGED <<referenceImages, queue, gallery, selectedImage>>
    /\ Commit(updates)
    /\ UNCHANGED <<quota, rejected, nupscales, mounted, isProcessingRef, inflight, uploads, upscales, uuid, nfiles, nupscales, calls, captured>>

----------------------------------------------------------------------------
(* GenerationPanel.handleSubmit and App.handleAddToQueue *)

handleAddToQueue(prompt, aspectRatio) ==
    LET job == newJob(randomUUID(uuid + 1), prompt, aspectRatio, rendered.referenceImages)
    IN  /\ uuid' = uuid + 1
        /\ queue' = Append(queue, job)
        /\ referenceImages' = <<>>
        /\ captured' = Append(captured, job)

\* Mutant: the prompt is tested without trim().
acceptsUntrimmed(prompt) == prompt # <<>>

\* prompt.trim() && !isAdding; isAdding is false whenever a submit event arrives,
\* because handleAddToQueue resolves before the next event.
acceptsPrompt(prompt) == Trim(prompt) # <<>>

handleSubmit(prompt, aspectRatio) ==
    /\ running
    /\ IF acceptsPrompt(prompt)
       THEN /\ Len(captured) < MaxJobs
            /\ handleAddToQueue(prompt, aspectRatio)
            /\ UNCHANGED <<gallery, selectedImage, rejected>>
            /\ Commit(updates \cup {"queue", "referenceImages"})
       ELSE /\ rejected' = TRUE
            /\ UNCHANGED <<uuid, queue, referenceImages, captured, gallery, selectedImage,
                           rendered, updates, storage>>
    /\ UNCHANGED <<quota, nupscales, mounted, isProcessingRef, inflight, uploads, upscales, nfiles, calls>>

----------------------------------------------------------------------------
(* App.processQueue, called by the interval with the queue of its render *)

\* Mutant: the guard does not look at the busy flag.
returnsEarlyNoFlag(flag, q) == Len(q) = 0 \/ findPending(q) = 0

\* The guard of processQueue: TRUE when the call returns at once.
returnsEarly(flag, q) == flag \/ Len(q) = 0 \/ findPending(q) = 0

processQueue ==
    /\ running
    /\ IF returnsEarly(isProcessingRef, rendered.queue)
       THEN UNCHANGED <<isProcessingRef, queue, inflight, calls, updates>>
       ELSE LET job == rendered.queue[findPending(rendered.queue)]
            IN  /\ Len(calls) < MaxCalls
                /\ isProcessingRef' = TRUE
                /\ queue' = markProcessing(queue, job.id)
                /\ updates' = updates \cup {"queue"}
                /\ inflight' = Append(inflight, job)
                /\ calls' = Append(calls, job.id)
    /\ UNCHANGED <<quota, rejected, nupscales, mounted, referenceImages, gallery, selectedImage, rendered, storage,
                   uploads, upscales, uuid, nfiles, captured>>

\* processQueue after the await: generateImage has returned or thrown.
processQueueResume(c, api) ==
    LET job == inflight[c]
        r == generateImage(job, api)
    IN  /\ IF r.ok
           THEN /\ uuid' = uuid + 1
                /\ gallery' = prepend(gallery, newGalleryItem(randomUUID(uuid + 1), r.url, job.prompt))
                /\ queue' = markCompleted(queue, job.id)
                /\ updates' = updates \cup {"gallery", "queue"}
           ELSE /\ queue' = markFailed(queue, job.id, errorMessageOf(r))
                /\ updates' = updates \cup {"queue"}
                /\ UNCHANGED <<uuid, gallery>>
        /\ isProcessingRef' = releaseBusy(isProcessingRef)
        /\ inflight' = SubSeq(inflight, 1, c - 1) \o SubSeq(inflight, c + 1, Len(inflight))
        /\ UNCHANGED <<quota, rejected, nupscales, mounted, referenceImages, selectedImage, rendered, storage, uploads,
                       upscales, nfiles, calls, captured>>

----------------------------------------------------------------------------
(* ReferenceImagePanel: staging *)

File(k) == [type |-> "image/png", bytes |-> "f" \o ToString(k)]

\* FileReader.readAsDataURL
readAsDataURL(file) == DataUrl(file.type, file.bytes)

\* Array.prototype.slice(0, end) for end >= 0.
slice0(a, end) == SubSeq(a, 1, IF end < Len(a) THEN end ELSE Len(a))

\* Mutant: every picked file is kept.
keptAllFiles(picked, images) == picked

\* The files handleImageUpload keeps of those picked.
keptFiles(picked, images) == slice0(picked, MAX_IMAGES - Len(images))

\* The input element is disabled while images.length >= MAX_IMAGES.
handleImageUpload(n) ==
    LET images == rendered.referenceImages
        picked == [i \in 1..n |-> File(nfiles + i)]
    IN  /\ running
        /\ Len(images) < MAX_IMAGES
        /\ nfiles + n <= MaxFiles
        /\ nfiles' = nfiles + n
        /\ uploads' = uploads \cup {[images |-> images, files |-> keptFiles(picked, images)]}
        /\ UNCHANGED <<quota, rejected, nupscales, mounted, referenceImages, queue, gallery, selectedImage,
                       isProcessingRef, rendered, storage, inflight, upscales, uuid,
                       calls, captured, updates>>

\* The value handed to onImagesChange when every file has been read.
uploadedImages(u) == u.images \o [i \in 1..Len(u.files) |-> readAsDataURL(u.files[i])]

\* handleImageUpload after the await: Promise.all has resolved or rejected.
handleImageUploadResume(u, readOk) ==
    /\ u \in uploads
    /\ uploads' = uploads \ {u}
    /\ IF readOk
       THEN /\ referenceImages' = uploadedImages(u)
            /\ updates' = updates \cup {"referenceImages"}
       ELSE UNCHANGED <<referenceImages, updates>>
    /\ UNCHANGED <<quota, rejected, nupscales, mounted, queue, gallery, selectedImage, isProcessingRef, rendered,
                   storage, inflight, upscales, uuid, nfiles, nupscales, calls, captured>>

removeAt(images, index) ==
    SubSeq(images, 1, index - 1) \o SubSeq(images, index + 1, Len(images))

handleRemoveImage(index) ==
    /\ running
    /\ index \in DOMAIN rendered.referenceImages
    /\ referenceImages' = removeAt(rendered.referenceImages, index)
    /\ UNCHANGED <<queue, gallery, selectedImage>>
    /\ Commit(updates \cup {"referenceImages"})
    /\ UNCHANGED <<quota, rejected, nupscales, mounted, isProcessingRef, inflight, uploads, upscales, uuid, nfiles, nupscales, calls, captured>>

----------------------------------------------------------------------------
(* ImageDetailModal and App.handleUpscaleImage *)

ApiUpscaled == [kind |-> "image", mime |-> "image/png", data |-> "UP",
                isError |-> FALSE, message |-> "", blockReason |-> ""]
UpscaleOutcomes == {ApiUpscaled, ApiEmpty}

upscaleImageTry(base64Image, api) ==
    IF ~ValidDataUrl(base64Image)
    THEN Thrown(TRUE, "Invalid base64 string format", "")
    ELSE CASE api.kind = "image" -> Returned(DataUrl(api.mime, api.data))
           [] api.kind = "empty" ->
                Thrown(TRUE, "Upscaling failed: No image data received from API.", "")
           [] OTHER -> Thrown(api.isError, api.message, api.blockReason)

upscaleImage(base64Image, api) ==
    LET r == upscaleImageTry(base64Image, api)
    IN  IF r.ok THEN r
        ELSE Thrown(TRUE,
                    IF r.isError
                    THEN IF r.blockReason # ""
                         THEN "Request blocked: " \o r.blockReason \o "."
                         ELSE r.message
                    ELSE "An unknown error occurred during image upscaling.",
                    "")

\* Mutant: the updater does not compare ids.
updateSrcAll(g, itemId, newSrc) == [i \in DOMAIN g |-> [g[i] EXCEPT !.src = newSrc]]

updateSrc(g, itemId, newSrc) ==
    [i \in DOMAIN g |-> IF g[i].id = itemId THEN [g[i] EXCEPT !.src = newSrc] ELSE g[i]]

updateSelected(sel, itemId, newSrc) ==
    IF sel # NoItem /\ sel.id = itemId THEN [sel EXCEPT !.src = newSrc] ELSE sel

handleSelectImage(i) ==
    /\ running
    /\ rendered.selectedImage = NoItem
    /\ i \in DOMAIN rendered.gallery
    /\ selectedImage' = rendered.gallery[i]
    /\ UNCHANGED <<queue, gallery, referenceImages>>
    /\ Commit(updates \cup {"selectedImage"})
    /\ UNCHANGED <<quota, rejected, nupscales, mounted, isProcessingRef, inflight, uploads, upscales, uuid, nfiles, nupscales, calls, captured>>

\* Closing unmounts the modal: its isUpscaling state is gone with it.
handleCloseModal ==
    /\ running
    /\ rendered.selectedImage # NoItem
    /\ selectedImage' = NoItem
    /\ upscales' = {[u EXCEPT !.modal = FALSE] : u \in upscales}
    /\ UNCHANGED <<queue, gallery, referenceImages>>
    /\ Commit(updates \cup {"selectedImage"})
    /\ UNCHANGED <<quota, rejected, nupscales, mounted, isProcessingRef, inflight, uploads, uuid, nfiles,
                   calls, captured>>

\* The button is disabled while the modal's isUpscaling is set.
handleUpscaleClick ==
    LET item == rendered.selectedImage
    IN  /\ running
        /\ item # NoItem
        /\ \A u \in upscales : ~u.modal
        /\ nupscales < MaxUpscales
        /\ nupscales' = nupscales + 1
        /\ upscales' = upscales \cup {[id |-> item.id, src |-> item.src, modal |-> TRUE,
                                       n |-> nupscales + 1]}
        /\ UNCHANGED <<quota, rejected, mounted, referenceImages, queue, gallery, selectedImage,
                       isProcessingRef, rendered, storage, inflight, uploads, uuid, nfiles,
                       calls, captured, updates>>

handleUpscaleImage(itemId, newSrc) ==
    /\ gallery' = updateSrc(gallery, itemId, newSrc)
    /\ selectedImage' = updateSelected(selectedImage, itemId, newSrc)
    /\ updates' = updates \cup {"gallery", "selectedImage"}

\* handleUpscaleClick after the await: upscaleImage has returned or thrown.
handleUpscaleClickResume(u, api) ==
    LET r == upscaleImage(u.src, api)
    IN  /\ u \in upscales
        /\ upscales' = upscales \ {u}
        /\ IF r.ok
           THEN handleUpscaleImage(u.id, r.url)
           ELSE UNCHANGED <<gallery, selectedImage, updates>>
        /\ UNCHANGED <<quota, rejected, nupscales, mounted, referenceImages, queue, isProcessingRef, rendered, storage,
                       inflight, uploads, uuid, nfiles, nupscales, calls, captured>>

----------------------------------------------------------------------------
(* Specification *)

Next ==
    \/ MountEffects
    \/ Render
    \/ \E s \in Submissions : handleSubmit(s[1], s[2])
    \/ processQueue
    \/ \E c \in DOMAIN inflight, api \in ApiOutcomes : processQueueResume(c, api)
    \/ \E n \in PickSizes : handleImageUpload(n)
    \/ \E u \in uploads, readOk \in BOOLEAN : handleImageUploadResume(u, readOk)
    \/ \E index \in 1..MAX_IMAGES : handleRemoveImage(index)
    \/ \E i \in DOMAIN rendered.gallery : handleSelectImage(i)
    \/ handleCloseModal
    \/ handleUpscaleClick
    \/ \E u \in upscales, api \in UpscaleOutcomes : handleUpscaleClickResume(u, api)

Spec == Init /\ [][Next]_vars

----------------------------------------------------------------------------
(* Scenarios: the same actions with narrower inputs.  Every behaviour of a  *)
(* scenario is a behaviour of Spec.                                         *)

ValidSubmissions == {s \in Submissions : acceptsPrompt(s[1])}

\* The page opens on an empty slot with room to spare.
InitFresh == Init /\ storage = NoStorage /\ quota = 8

\* The page opens on the gallery of a previous session.
InitReturning == Init /\ storage = JSONstringify(<<OldItem>>) /\ quota = 8

\* The queue processor alone: submissions, ticks, Provider outcomes, renders.
NextQueue ==
    \/ MountEffects
    \/ Render
    \/ \E s \in ValidSubmissions : handleSubmit(s[1], s[2])
    \/ processQueue
    \/ \E c \in DOMAIN inflight, api \in ApiOutcomes : processQueueResume(c, api)

SpecQueue == InitReturning /\ [][NextQueue]_vars

\* The queue processor interleaved with the modal and its upscale requests.
NextUpscale ==
    \/ MountEffects
    \/ Render
    \/ \E s \in {<<<<"a">>, "1:1">>} : handleSubmit(s[1], s[2])
    \/ processQueue
    \/ \E c \in DOMAIN inflight, api \in {ApiImage, ApiBlocked} : processQueueResume(c, api)
    \/ \E i \in DOMAIN rendered.gallery : handleSelectImage(i)
    \/ handleCloseModal
    \/ handleUpscaleClick
    \/ \E u \in upscales, api \in UpscaleOutcomes : handleUpscaleClickResume(u, api)

SpecUpscale == InitReturning /\ [][NextUpscale]_vars

\* The modal opened, closed and reopened while upscale requests are answered
\* and jobs are enqueued, started and finished.
NextModal ==
    \/ MountEffects
    \/ Render
    \/ \E s \in {<<<<"a">>, "1:1">>} : handleSubmit(s[1], s[2])
    \/ processQueue
    \/ \E c \in DOMAIN inflight, api \in {ApiImage} : processQueueResume(c, api)
    \/ \E i \in DOMAIN rendered.gallery : handleSelectImage(i)
    \/ handleCloseModal
    \/ handleUpscaleClick
    \/ \E u \in upscales, api \in UpscaleOutcomes : handleUpscaleClickResume(u, api)

SpecModal == InitReturning /\ [][NextModal]_vars

\* Staging interleaved with submissions and the queue processor: files are
\* picked, read and removed while jobs are enqueued, started and failed.
NextStaging ==
    \/ MountEffects
    \/ Render
    \/ \E s \in {<<<<"a">>, "1:1">>} : handleSubmit(s[1], s[2])
    \/ \E n \in PickSizes : handleImageUpload(n)
    \/ \E u \in uploads : handleImageUploadResume(u, TRUE)
    \/ \E index \in {2} : handleRemoveImage(index)
    \/ processQueue
    \/ \E c \in DOMAIN inflight, api \in {ApiBlocked} : processQueueResume(c, api)

SpecStaging == InitReturning /\ [][NextStaging]_vars

\* Submit events of every kind, blank prompts included.
NextSubmit ==
    \/ MountEffects
    \/ Render
    \/ \E s \in Submissions : handleSubmit(s[1], s[2])
    \/ \E n \in {5} : handleImageUpload(n)
    \/ \E u \in uploads : handleImageUploadResume(u, TRUE)
    \/ processQueue
    \/ \E c \in DOMAIN inflight, api \in {ApiImage, ApiBlocked} : processQueueResume(c, api)

SpecSubmit == InitReturning /\ [][NextSubmit]_vars

\* Persistence: every slot content and quota the page can open on, jobs that
\* succeed and fail, and upscales of the items shown.
NextPersist ==
    \/ MountEffects
    \/ Render
    \/ \E s \in {<<<<"a">>, "1:1">>} : handleSubmit(s[1], s[2])
    \/ processQueue
    \/ \E c \in DOMAIN inflight, api \in {ApiImage, ApiBlocked} : processQueueResume(c, api)
    \/ \E i \in DOMAIN rendered.gallery : handleSelectImage(i)
    \/ handleUpscaleClick
    \/ \E u \in upscales, api \in {ApiUpscaled} : handleUpscaleClickResume(u, api)

SpecPersist == Init /\ [][NextPersist]_vars

\* The gallery of a returning user: jobs with different prompts that succeed
\* and fail, and upscales of the items shown.
NextGallery ==
    \/ MountEffects
    \/ Render
    \/ \E s \in ValidSubmissions : handleSubmit(s[1], s[2])
    \/ processQueue
    \/ \E c \in DOMAIN inflight, api \in {ApiImage, ApiBlocked} : processQueueResume(c, api)
    \/ \E i \in DOMAIN rendered.gallery : handleSelectImage(i)
    \/ handleUpscaleClick
    \/ \E u \in upscales, api \in {ApiUpscaled} : handleUpscaleClickResume(u, api)

SpecGallery == InitReturning /\ [][NextGallery]_vars

----------------------------------------------------------------------------
(* Vocabulary of the properties *)

Processing(q) == {i \in DOMAIN q : q[i].status = "processing"}

Ids(q) == {q[i].id : i \in DOMAIN q}

\* Position of a job in the order of submission.
Submitted(id) == CHOOSE k \in DOMAIN captured : captured[k].id = id

\* This step passes a job to generateImage.
StartStep == Len(calls') = Len(calls) + 1

Started == calls'[Len(calls')]

----------------------------------------------------------------------------
(* C1: single-flight.  In every reachable state at most one call of
   generateImage is in flight and at most one job of the queue, as updated
   and as rendered, has status processing; a job with status processing is
   the job of the call in flight, so no second job is started before the
   job in flight has been removed or marked failed. *)
C1_SingleFlight ==
    /\ Len(inflight) <= 1
    /\ Cardinality(Processing(queue)) <= 1
    /\ Cardinality(Processing(rendered.queue)) <= 1
    /\ \A i \in Processing(queue) : inflight # <<>> /\ inflight[1].id = queue[i].id

\* A call is in flight while another job waits and an upscale is in flight.
C1_Witness ==
    /\ Len(inflight) = 1
    /\ Processing(queue) # {}
    /\ \E i \in DOMAIN queue : queue[i].status = "pending"
    /\ upscales # {}

(* C2: FIFO.  Whenever a tick starts a job, that job has status pending in
   the queue the tick evaluates and no job before it there is pending; no
   job submitted before it is pending in the updated queue either; and the
   jobs are passed to generateImage in the order of their submission. *)
C2_Fifo ==
    [][StartStep =>
        LET q == rendered.queue
            i == CHOOSE k \in DOMAIN q : q[k].id = Started
        IN  /\ Started \in Ids(q)
            /\ q[i].status = "pending"
            /\ \A k \in 1..(i - 1) : q[k].status # "pending"
            /\ \A k \in DOMAIN queue :
                  Submitted(queue[k].id) < Submitted(Started) => queue[k].status # "pending"
            /\ \A a, b \in DOMAIN calls' :
                  a < b => Submitted(calls'[a]) <= Submitted(calls'[b])]_vars

\* The second job has been started while the first, failed, is still queued.
C2_Witness ==
    /\ Len(queue) = 2
    /\ queue[1].status = "failed"
    /\ queue[2].status = "processing"
    /\ calls = <<queue[1].id, queue[2].id>>

(* C3: whenever no call of generateImage is in flight, the busy flag is
   false: the call that set it has cleared it on return, after a result, an
   Error or a thrown value that is no Error. *)
C3_BusyReleased == inflight = <<>> => ~isProcessingRef

\* A call has ended with a thrown value that is no Error.
C3_Witness ==
    /\ inflight = <<>>
    /\ ~isProcessingRef
    /\ \E i \in DOMAIN queue :
          /\ queue[i].status = "failed"
          /\ queue[i].error = "An unknown error occurred during image generation."

(* C4: success path.  In the step in which generateImage returns an image
   for the job of the call in flight, that job leaves the queue, the other
   jobs stay as they are, and exactly one new item, with the returned image
   as src and the job's prompt, is put at the front of the gallery, before
   the items that were there, in their order. *)
C4_SuccessPath ==
    [][\A api \in ApiOutcomes :
          (/\ inflight # <<>>
           /\ generateImage(inflight[1], api).ok
           /\ processQueueResume(1, api))
          => LET job == inflight[1]
             IN  /\ job.id \notin Ids(queue')
                 /\ queue' = SelectSeq(queue, LAMBDA j : j.id # job.id)
                 /\ Len(gallery') = Len(gallery) + 1
                 /\ gallery'[1].src = generateImage(job, api).url
                 /\ gallery'[1].prompt = job.prompt
                 /\ gallery'[1].id \notin Ids(gallery)
                 /\ \A i \in DOMAIN gallery : gallery'[i + 1] = gallery[i]]_vars

\* A job has left the queue and its item heads a gallery that held items before.
C4_Witness ==
    /\ Len(gallery) >= 2
    /\ gallery[Len(gallery)] = OldItem
    /\ \E k \in DOMAIN captured :
          /\ captured[k].id \notin Ids(queue)
          /\ gallery[1].prompt = captured[k].prompt
          /\ gallery[1].src = DataUrl("image/png", "AAA")

(* C5: no retry.  A job for which a call of generateImage has failed is not
   passed to generateImage again. *)
C5_NoRetry ==
    [][\A i \in DOMAIN queue :
          queue[i].status = "failed" => ~(StartStep /\ Started = queue[i].id)]_vars

----------------------------------------------------------------------------
(* C6: progress.  With ticks that keep firing, calls that return and
   renders that are not put off for ever, every submitted job is eventually
   settled: it is in the queue with status failed, or it has left the queue
   with an item of its prompt created in the gallery.  A failed job at the
   head does not keep the jobs behind it from being started.  The model
   stops starting calls after MaxCalls of them, so a run that has spent
   them all is exempt. *)

NextLive ==
    \/ MountEffects
    \/ Render
    \/ \E s \in ValidSubmissions : handleSubmit(s[1], s[2])
    \/ processQueue
    \/ \E c \in DOMAIN inflight, api \in {ApiImage, ApiBlocked} : processQueueResume(c, api)

\* setInterval keeps calling processQueue, the promise of generateImage is
\* settled, and React commits the updates it has scheduled.
LiveSpec ==
    /\ InitFresh
    /\ [][NextLive]_vars
    /\ WF_vars(MountEffects)
    /\ WF_vars(Render)
    /\ WF_vars(processQueue)
    /\ WF_vars(\E c \in DOMAIN inflight, api \in {ApiImage, ApiBlocked} : processQueueResume(c, api))

SubmittedAtLeast(k) == Len(captured) >= k

Settled(k) ==
    /\ Len(captured) >= k
    /\ LET job == captured[k]
       IN  \/ \E i \in DOMAIN queue : queue[i].id = job.id /\ queue[i].status = "failed"
           \/ /\ job.id \notin Ids(queue)
              /\ \E i \in DOMAIN gallery : gallery[i].prompt = job.prompt

CallsSpent == Len(calls) = MaxCalls

C6_Progress == \A k \in 1..MaxJobs : SubmittedAtLeast(k) ~> (Settled(k) \/ CallsSpent)

\* The first job has failed and stays queued; the job behind it has completed.
C6_Witness ==
    /\ Len(captured) >= 2
    /\ Len(queue) = 1
    /\ queue[1].id = captured[1].id
    /\ queue[1].status = "failed"
    /\ Settled(2)
    /\ ~CallsSpent

----------------------------------------------------------------------------
(* C7: a job's referenceImages, prompt and aspectRatio are fixed at enqueue.
   The job built by an enqueue holds the staging content of that moment
   (the images the panel shows), and from then on every job of the queue,
   of the rendered queue and of a call in flight carries the three fields
   it was enqueued with, whatever happens to staging, to the other jobs
   and to its own status. *)

SameInputs(a, b) ==
    /\ a.prompt = b.prompt
    /\ a.referenceImages = b.referenceImages
    /\ a.aspectRatio = b.aspectRatio

AsEnqueued(job, log) ==
    \E k \in DOMAIN log : log[k].id = job.id /\ SameInputs(job, log[k])

C7_FixedAtEnqueue ==
    [][/\ \A s \in Submissions :
            (acceptsPrompt(s[1]) /\ handleSubmit(s[1], s[2])) =>
                LET job == queue'[Len(queue')]
                IN  /\ job.prompt = s[1]
                    /\ job.aspectRatio = s[2]
                    /\ job.referenceImages = rendered.referenceImages
       /\ \A i \in DOMAIN queue, j \in DOMAIN queue' :
            queue[i].id = queue'[j].id => SameInputs(queue[i], queue'[j])
       /\ \A j \in DOMAIN queue' : AsEnqueued(queue'[j], captured')
       /\ \A j \in DOMAIN rendered'.queue : AsEnqueued(rendered'.queue[j], captured')
       /\ \A c \in DOMAIN inflight' : AsEnqueued(inflight'[c], captured')
      ]_vars

\* A job enqueued with two images has failed; staging was then refilled and
\* an image removed from it, and a later job was enqueued with other images.
C7_Witness ==
    /\ Len(queue) = 2
    /\ queue[1].status = "failed"
    /\ Len(queue[1].referenceImages) = 2
    /\ Len(queue[2].referenceImages) = 1
    /\ queue[2].referenceImages[1] \notin {queue[1].referenceImages[i] : i \in 1..2}
    /\ referenceImages = <<>>

----------------------------------------------------------------------------
(* C8: an enqueue with a non-empty prompt adds exactly one job at the tail
   of the queue, pending and with an id that no other job has or had; it
   empties staging and leaves the jobs already queued (one in processing
   included), the busy flag, the call in flight and the gallery as they
   were. *)

C8_EnqueueFrame ==
    [][\A s \in Submissions :
          (acceptsPrompt(s[1]) /\ handleSubmit(s[1], s[2])) =>
              /\ Len(queue') = Len(queue) + 1
              /\ SubSeq(queue', 1, Len(queue)) = queue
              /\ queue'[Len(queue')].status = "pending"
              /\ queue'[Len(queue')].id \notin Ids(queue) \cup Ids(captured)
              /\ referenceImages' = <<>>
              /\ rendered'.referenceImages = <<>>
              /\ isProcessingRef' = isProcessingRef
              /\ inflight' = inflight
              /\ gallery' = gallery
      ]_vars

\* The second job was enqueued, with staged images, behind a job in processing.
C8_Witness ==
    /\ Len(queue) = 2
    /\ queue[1].status = "processing"
    /\ isProcessingRef
    /\ queue[2].status = "pending"
    /\ queue[2].referenceImages # <<>>
    /\ referenceImages = <<>>
    /\ gallery # <<>>

----------------------------------------------------------------------------
(* C9: staging never holds more than MAX_IMAGES images, whatever the order
   of adds, overlapping file reads, removes and enqueues, so no job has
   more than MAX_IMAGES reference images; an add that offers more files
   than there is room for keeps the first files that fit, in order, and
   goes on to stage them. *)

Room(images) == MAX_IMAGES - Len(images)

C9_StagingCapacity ==
    [][/\ Len(referenceImages') <= MAX_IMAGES
       /\ Len(rendered'.referenceImages) <= MAX_IMAGES
       /\ \A j \in DOMAIN queue' : Len(queue'[j].referenceImages) \in 0..MAX_IMAGES
       /\ \A k \in DOMAIN captured' : Len(captured'[k].referenceImages) \in 0..MAX_IMAGES
       /\ \A u \in uploads' : Len(uploadedImages(u)) <= MAX_IMAGES
       /\ \A n \in PickSizes :
            handleImageUpload(n) =>
                \E u \in uploads' :
                    /\ u.images = rendered.referenceImages
                    /\ Len(u.files) = IF n <= Room(u.images) THEN n ELSE Room(u.images)
                    /\ \A i \in DOMAIN u.files : u.files[i] = File(nfiles + i)
      ]_vars

\* Five files were offered to an empty panel and four are staged.
C9_Witness ==
    /\ nfiles = 5
    /\ Len(referenceImages) = MAX_IMAGES
    /\ \A i \in 1..MAX_IMAGES : referenceImages[i] = readAsDataURL(File(i))
    /\ uploads = {}

----------------------------------------------------------------------------
(* C10: a submission whose prompt is empty, or blank once trimmed, creates
   no job and leaves the queue, staging and the gallery unchanged, so no
   job ever has an empty prompt. *)

C10_EmptyPromptRejected ==
    [][/\ \A s \in Submissions :
            (Trim(s[1]) = <<>> /\ handleSubmit(s[1], s[2])) =>
                /\ queue' = queue
                /\ referenceImages' = referenceImages
                /\ gallery' = gallery
                /\ rendered' = rendered
                /\ captured' = captured
                /\ inflight' = inflight
       /\ \A j \in DOMAIN queue' : Trim(queue'[j].prompt) # <<>>
       /\ \A c \in DOMAIN inflight' : Trim(inflight'[c].prompt) # <<>>
      ]_vars

\* A blank prompt was submitted while images were staged and a job was queued.
C10_Witness ==
    /\ rejected
    /\ Len(rendered.referenceImages) = MAX_IMAGES
    /\ referenceImages = rendered.referenceImages
    /\ queue # <<>>

----------------------------------------------------------------------------
(* C11: a tick that fires while the busy flag is set, or while no job of
   the queue has status pending, is a no-op: queue, gallery, staging and
   busy flag keep their values and generateImage is not called. *)

NoPending(q) == \A i \in DOMAIN q : q[i].status # "pending"

C11_NoOpTick ==
    [][(processQueue /\ (isProcessingRef \/ NoPending(queue))) =>
          /\ UNCHANGED <<queue, gallery, referenceImages, isProcessingRef>>
          /\ ~StartStep]_vars

----------------------------------------------------------------------------
(* C12: the three queue updates of the processor, applied with the id of a
   job that is not in the queue, return the queue as it is and throw
   nothing.  It is stated of every reachable queue and every id absent from
   it; the program applies them so when a tick restarts a job that has
   already left the queue. *)

\* Every id crypto.randomUUID has handed out, and one it has not.
KnownIds == {randomUUID(n) : n \in 0..uuid}

C12_AbsentIdNoOp ==
    \A id \in KnownIds \ Ids(queue) :
        /\ markProcessing(queue, id) = queue
        /\ markCompleted(queue, id) = queue
        /\ \A msg \in {"Unknown error", generateImageMessage(ApiBlocked)} :
              markFailed(queue, id, msg) = queue

\* A call is in flight for a job that has left the queue, where another job
\* waits: markProcessing has been applied with the absent id, and markFailed
\* or the removal will be.
C12_Witness ==
    /\ inflight # <<>>
    /\ inflight[1].id \notin Ids(queue)
    /\ isProcessingRef
    /\ \E i \in DOMAIN queue : queue[i].status = "pending"

----------------------------------------------------------------------------
(* C13: persistence round trip.  Once a mutation of the gallery (the prepend
   of a finished job, the new src of an upscale) has been rendered and the
   write of the save effect has succeeded, the slot holds the text of the
   whole gallery, and parsing that text gives the gallery back: the same
   items, in the same order, each with its id, src and prompt. *)

\* localStorage.setItem would store the text of g.
WriteSucceeds(g) == setItem(storage, JSONstringify(g), quota) = JSONstringify(g)

\* The gallery has been rendered, and its save effect has run.
GallerySaved == running /\ "gallery" \notin updates

C13_RoundTrip ==
    (GallerySaved /\ WriteSucceeds(gallery)) =>
        /\ rendered.gallery = gallery
        /\ storage = JSONstringify(gallery)
        /\ JSONparse(storage).ok
        /\ JSONparse(storage).value = gallery

\* The slot holds an upscaled item and, before it, the item of a job.
C13_Witness ==
    /\ GallerySaved
    /\ Len(gallery) = 2
    /\ gallery[2].id = OldItem.id
    /\ gallery[2].src = DataUrl("image/png", "UP")
    /\ gallery[1].prompt = <<"a">>
    /\ quota = 8
    /\ JSONparse(storage).value = gallery

----------------------------------------------------------------------------
(* C14: an upscale of the gallery item with id I changes at most the src of
   the item with id I and of the selected image when it is that item.
   Whatever ticks, enqueues and job completions come between the click and
   the answer, the step that delivers the answer leaves the queue, the busy
   flag, the call in flight and staging alone, keeps the gallery's length,
   order, ids and prompts and the src of every other item (so an item
   prepended meanwhile by a finished job is still there), and changes
   nothing at all when upscaleImage throws; the click itself changes none
   of these; and the update for an id that is not in the gallery returns
   the gallery as it is. *)

SameButSrc(a, b) == a.id = b.id /\ a.prompt = b.prompt

C14_UpscaleFrame ==
    [][/\ \A u \in upscales, api \in UpscaleOutcomes :
            handleUpscaleClickResume(u, api) =>
                /\ UNCHANGED <<queue, isProcessingRef, inflight, referenceImages, calls>>
                /\ Len(gallery') = Len(gallery)
                /\ \A i \in DOMAIN gallery :
                      /\ SameButSrc(gallery'[i], gallery[i])
                      /\ gallery[i].id # u.id => gallery'[i] = gallery[i]
                /\ SameButSrc(selectedImage', selectedImage)
                /\ selectedImage.id # u.id => selectedImage' = selectedImage
                /\ ~upscaleImage(u.src, api).ok => UNCHANGED <<gallery, selectedImage>>
       /\ handleUpscaleClick =>
             /\ UNCHANGED <<queue, isProcessingRef, inflight, referenceImages, gallery,
                            selectedImage>>
             /\ \A id \in KnownIds \ Ids(gallery) :
                   updateSrc(gallery, id, DataUrl("image/png", "UP")) = gallery
      ]_vars

\* An upscale has been answered and a job has finished since the last render:
\* the job's item is at the front, the upscaled item behind it, a job waits.
C14_Witness ==
    /\ rendered.gallery = <<OldItem>>
    /\ Len(gallery) = 2
    /\ gallery[1].prompt = <<"a">>
    /\ gallery[2] = [OldItem EXCEPT !.src = DataUrl("image/png", "UP")]
    /\ selectedImage = gallery[2]
    /\ \E i \in DOMAIN queue : queue[i].status = "pending"

----------------------------------------------------------------------------
(* C15: startup load.  The load effect makes the gallery the collection the
   slot holds; when the slot is absent or does not hold a gallery (its text
   does not parse, or parses to something that is no collection of items),
   the gallery is the empty collection; and the page never enters an error
   state, so handlers and ticks go on working. *)

HoldsGallery(slot) ==
    /\ slot # NoStorage
    /\ JSONparse(slot).ok
    /\ IsArray(JSONparse(slot).value)

C15_StartupLoad ==
    [][/\ MountEffects =>
            gallery' = IF HoldsGallery(storage) THEN JSONparse(storage).value ELSE <<>>
       /\ ~Crashed'
      ]_vars

----------------------------------------------------------------------------
(* C16: a write of the gallery that fails rolls nothing back.  In the step
   in which the save effect runs and setItem throws, the gallery keeps the
   mutation that caused the write and is rendered with it, the slot keeps
   what it held, the jobs of the queue, the busy flag and the call in
   flight are as they were, and the page goes on running. *)

\* This step renders a changed gallery and the write of its save effect fails.
FailedWrite ==
    /\ "gallery" \in updates
    /\ updates' = {}
    /\ IsArray(gallery')
    /\ ~WriteSucceeds(gallery')

C16_WriteFailure ==
    [][FailedWrite =>
          /\ gallery' = gallery
          /\ rendered'.gallery = gallery
          /\ storage' = storage
          /\ SubSeq(queue', 1, Len(queue)) = queue
          /\ isProcessingRef' = isProcessingRef
          /\ inflight' = inflight
          /\ running'
      ]_vars

\* The slot has room for one item; two jobs have finished since the write of
\* the first one's gallery failed, and the slot still holds the old gallery.
C16_Witness ==
    /\ quota = 1
    /\ Len(gallery) = 3
    /\ rendered.gallery = gallery
    /\ storage = JSONstringify(<<OldItem>>)
    /\ queue = <<>>
    /\ ~isProcessingRef

----------------------------------------------------------------------------
(* C17: after the startup load the gallery only grows at the front.  No
   step makes it shorter, and the gallery before a step is, item for item
   (id and prompt), the tail of the gallery after it; the items created in
   this session come before the loaded ones, newest first, and in the
   reverse of the order in which the jobs that produced them were
   submitted. *)

\* The item was created in this session: its id is one randomUUID returned.
InSession(item) == item.id \in KnownIds

\* The number of the randomUUID call that named the item.
Created(item) == CHOOSE n \in 0..uuid : randomUUID(n) = item.id

\* The submissions the item can come from: those with its prompt.
Producers(item) == {k \in DOMAIN captured : captured[k].prompt = item.prompt}

NewestFirst ==
    \A i, j \in DOMAIN gallery :
        i < j =>
            /\ InSession(gallery[j]) => InSession(gallery[i])
            /\ InSession(gallery[j]) =>
                  /\ Created(gallery[i]) > Created(gallery[j])
                  /\ \E a \in Producers(gallery[i]), b \in Producers(gallery[j]) : a >= b

C17_GalleryGrows ==
    [][/\ mounted => Len(rendered'.gallery) >= Len(rendered.gallery)
       /\ (mounted /\ gallery' # gallery) =>
             /\ Len(gallery') >= Len(gallery)
             /\ \A i \in DOMAIN gallery :
                   SameButSrc(gallery'[i + Len(gallery') - Len(gallery)], gallery[i])
             /\ NewestFirst'
      ]_vars

\* Two jobs with different prompts have finished and the loaded item has
\* been upscaled: the later job's item is first, the loaded item last.
C17_Witness ==
    /\ Len(gallery) = 3
    /\ Len(captured) = 2
    /\ captured[1].prompt # captured[2].prompt
    /\ gallery[1].prompt = captured[2].prompt
    /\ gallery[2].prompt = captured[1].prompt
    /\ gallery[3] = [OldItem EXCEPT !.src = DataUrl("image/png", "UP")]

----------------------------------------------------------------------------
(* C18: at most once.  No job is passed to generateImage twice, and the
   gallery never holds more items of this session than jobs have been
   submitted, whatever the order of ticks, answers and renders, a tick on
   the queue of an earlier render included. *)

SessionItems == {i \in DOMAIN gallery : InSession(gallery[i])}

C18_AtMostOnce ==
    /\ \A a, b \in DOMAIN calls : a # b => calls[a] # calls[b]
    /\ Cardinality(SessionItems) <= Len(captured)

----------------------------------------------------------------------------
(* C19: flag and status agree.  With every queue update of the processor
   applied, the busy flag is set exactly when one job of the queue has
   status processing: a cleared flag leaves no job in processing, and a set
   flag has its job in processing. *)

C19_FlagStatus == isProcessingRef <=> Cardinality(Processing(queue)) = 1

----------------------------------------------------------------------------
(* C20: a gallery stored by a previous session is not lost from the slot.
   From the opening of the page on, no step replaces a slot that holds a
   non-empty gallery by a slot that lacks one of its items. *)

StoredIds(slot) ==
    IF HoldsGallery(slot) THEN Ids(JSONparse(slot).value) ELSE {}

C20_StoredGalleryKept == [][StoredIds(storage) \subseteq StoredIds(storage')]_vars

----------------------------------------------------------------------------
(* C21: an add to staging only appends.  In the step in which the file
   reads of an upload complete, staging becomes what it held just before
   that step followed by the images read, so a remove, another add or the
   clear of an enqueue made while the files were read stays in effect; and
   staging never holds an image that a job has already captured and that
   was cleared from it. *)

\* The images the reads of upload u deliver.
newImages(u) == [i \in 1..Len(u.files) |-> readAsDataURL(u.files[i])]

Elements(images) == {images[i] : i \in DOMAIN images}

\* The images that enqueues have captured and cleared from staging.
CapturedImages == UNION {Elements(captured[k].referenceImages) : k \in DOMAIN captured}

C21_AddAppends ==
    [][/\ \A u \in uploads :
            handleImageUploadResume(u, TRUE) =>
                referenceImages' = referenceImages \o newImages(u)
       /\ Elements(referenceImages') \cap CapturedImages' = {}
      ]_vars

====
